---- MODULE Spec2Model ----
(***************************************************************************)
(* KangarooTwelve (k12/src/lib.rs): the KangarooTwelve hasher that buffers *)
(* the message and the customization, the Reader that finalize_xof and     *)
(* finalize_xof_reset hand out, Reader::read (the tree-hashing mode) and   *)
(* right_encode.  Bytes are integers in 0..255, byte strings are           *)
(* sequences; Rust's 0-based half-open ranges become 1-based SubSeq.       *)
(***************************************************************************)
EXTENDS Integers, Sequences, FiniteSets, TLC

VARIABLES
    hasher,     \* the KangarooTwelve value: <<>> (none, or moved out) or <<[buffer, customization]>>
    reader,     \* the Reader last handed out: <<>> or <<[buffer, customization, finished]>>
    output,     \* the caller's output slice after the last read call
    panicked,   \* the assert! of read has failed
    locals,     \* <<>> or <<the locals of the last successful read>>
    ctor,       \* history: "none", "new" or "new_with_customization"
    ccust,      \* history: the customization given at construction
    args,       \* history: ids of the blocks passed to update since the buffer was last empty by construction, reset or finalize_xof_reset
    nupd,       \* history: update calls so far
    finReset,   \* history: finalize_xof_reset has been called on the hasher
    rinfo,      \* history: [ctor, ccust, args, finReset] when the reader was made
    nreads,     \* history: read calls on the reader
    encx,       \* the argument of right_encode (SpecEncode)
    encoded     \* <<>> or <<right_encode(encx)>> (SpecEncode)

vars == <<hasher, reader, output, panicked, locals, ctor, ccust, args, nupd,
          finReset, rinfo, nreads, encx, encoded>>
k12vars == <<hasher, reader, output, panicked, locals, ctor, ccust, args, nupd,
             finReset, rinfo, nreads>>

(* ------------------------------ bounds -------------------------------- *)

\* update calls one hasher may receive over its lifetime
MaxUpdates == 2
\* read is called with output lengths 0..MaxOutLen
MaxOutLen == 2
\* right_encode is applied to every x in 0..MaxEncodeInput (and EncodeEdges)
MaxEncodeInput == 300

(* ------------------------- program constants -------------------------- *)

\* let b = 8192;
B == 8192
\* const C: usize = 256;
CapacityC == 256
\* let mut digest = [0u8; C / 8];
CVLen == CapacityC \div 8

(* ------------------------------ inputs -------------------------------- *)

\* The pattern of the KangarooTwelve test vectors: byte i is i mod 251.
Ptn(n) == [i \in 1..n |-> (i - 1) % 251]

\* One byte short of a chunk, so that one more byte, or the customization
\* suffix, crosses the chunk boundary.
BigBlock == Ptn(B - 1)

Blocks == << <<201>>, BigBlock >>
BlockIds == 1..Len(Blocks)

LongCustomization == [i \in 1..CapacityC |-> 255 - ((i - 1) % 7)]
Customizations == << <<>>, <<7>>, LongCustomization >>
CustIds == 1..Len(Customizations)

OutLens == 0..MaxOutLen

(* --------------- the sponge (sha3::TurboShake128, external) ----------- *)

Mix(a, b) == (a * 251 + b * 7 + 13) % 65521

\* pad10*: a 1 and then zeros, up to the next multiple of eight
Pad(s) == s \o SubSeq(<<1, 0, 0, 0, 0, 0, 0, 0>>, 1, 8 - (Len(s) % 8))

Word(p, j) ==
    (p[8 * j - 7] * 3 + p[8 * j - 6] * 5 + p[8 * j - 5] * 7 + p[8 * j - 4] * 11
     + p[8 * j - 3] * 13 + p[8 * j - 2] * 17 + p[8 * j - 1] * 19 + p[8 * j] * 23
     + 1) % 65521

\* The absorbing phase: every byte of the input enters the state.
RECURSIVE Absorb(_)
Absorb(s) ==
    LET p == Pad(s)
    IN  IF Len(p) = 8 THEN Word(p, 1)
        ELSE Absorb([j \in 1..(Len(p) \div 8) |-> Word(p, j)])

\* TurboShake128::from_core(TurboShake128Core::new(d)); update(input);
\* finalize_xof_into(out) with out.len() = outlen: a deterministic stream
\* fixed by (d, input), of which the first outlen bytes are written.
TurboShake128(d, input, outlen) ==
    LET st == Mix(Mix(Absorb(input), d), Len(input) % 65521)
    IN  [i \in 1..outlen |-> Mix(Mix(st, i), Mix(i, st)) % 256]

(* ----------------------------- right_encode --------------------------- *)

\* while x > 0 { slice.push((x % 256) as u8); x /= 256; }
RECURSIVE PushDigits(_)
PushDigits(x) == IF x > 0 THEN <<x % 256>> \o PushDigits(x \div 256) ELSE <<>>

\* slice.reverse()
Reverse(s) == [i \in 1..Len(s) |-> s[Len(s) + 1 - i]]

right_encode_le(x) ==
    LET slice == PushDigits(x)
    IN  Append(slice, Len(slice) % 256)

right_encode(x) ==
    LET slice == Reverse(PushDigits(x))
    IN  Append(slice, Len(slice) % 256)

(* ------------------------------ KangarooTwelve ------------------------ *)

KNew_zero == [buffer |-> <<>>, customization |-> <<0>>]

\* #[derive(Default)]: both Vecs empty
KNew == [buffer |-> <<>>, customization |-> <<>>]

KNewWithCustomization(customization) ==
    [buffer |-> <<>>, customization |-> customization]

KUpdate_overwrite(self, bytes) == [self EXCEPT !.buffer = bytes]

KUpdate(self, bytes) == [self EXCEPT !.buffer = @ \o bytes]

NewReader(buffer, customization) ==
    [buffer |-> buffer, customization |-> customization, finished |-> FALSE]

KFinalizeXof(self) == NewReader(self.buffer, self.customization)

\* mem::swap with two fresh empty Vecs: the Reader gets the hasher's
\* vectors, the hasher is left with the empty ones.
KFinalizeXofReset(self) ==
    [reader |-> NewReader(self.buffer, self.customization),
     self   |-> [buffer |-> <<>>, customization |-> <<>>]]

KReset_all(self) == [buffer |-> <<>>, customization |-> <<>>]

KReset(self) == [self EXCEPT !.buffer = <<>>]

(* ------------------------------ Reader::read -------------------------- *)

Min(a, b) == IF a < b THEN a ELSE b

\* S
BuildSlice(buffer, customization) ==
    buffer \o customization \o right_encode(Len(customization))

NumChunks_plus1(len) == (len \div B) + 1

NumChunks(len) == (len + B - 1) \div B

CutSlices_short(slice) ==
    [i \in 1..NumChunks(Len(slice)) |->
        SubSeq(slice, (i - 1) * B + 1, Min(i * B - 1, Len(slice)))]

\* Si
CutSlices(slice) ==
    [i \in 1..NumChunks(Len(slice)) |->
        SubSeq(slice, (i - 1) * B + 1, Min(i * B, Len(slice)))]

LeafCall(chunk) ==
    [d |-> 11, input |-> chunk, out |-> TurboShake128(11, chunk, CVLen)]

\* CVi
Intermediate(slices) == [i \in 1..(Len(slices) - 1) |-> LeafCall(slices[i + 1])]

RECURSIVE ConcatCVs_rev(_, _)
ConcatCVs_rev(intermediate, i) ==
    IF i > Len(intermediate) THEN <<>>
    ELSE ConcatCVs_rev(intermediate, i + 1) \o intermediate[i].out

\* for i in 0..n - 1 { node_star.extend_from_slice(&intermediate[i][..]); }
RECURSIVE ConcatCVs(_, _)
ConcatCVs(intermediate, i) ==
    IF i > Len(intermediate) THEN <<>>
    ELSE intermediate[i].out \o ConcatCVs(intermediate, i + 1)

NodeStar(slices, intermediate) ==
    slices[1] \o <<3, 0, 0, 0, 0, 0, 0, 0>> \o ConcatCVs(intermediate, 1)
        \o right_encode(Len(slices) - 1) \o <<255, 255>>

FinalCall_lenprefixed(d, input, outlen) ==
    [d |-> d, input |-> input \o right_encode(outlen),
     out |-> TurboShake128(d, input \o right_encode(outlen), outlen)]

\* hasher.update(..); hasher.finalize_xof_into(output)
FinalCall(d, input, outlen) ==
    [d |-> d, input |-> input, out |-> TurboShake128(d, input, outlen)]

\* The locals of one successful read: the string S, its chunks, and the
\* sponge calls in the order they are made (the last one writes output).
ReadCompute(buffer, customization, outlen) ==
    LET slice  == BuildSlice(buffer, customization)
        slices == CutSlices(slice)
        n      == Len(slices)
    IN  IF n = 1
        THEN [slice |-> slice, slices |-> slices,
              calls |-> <<FinalCall(7, slices[1], outlen)>>]
        ELSE LET intermediate == Intermediate(slices)
                 node_star    == NodeStar(slices, intermediate)
             IN  [slice |-> slice, slices |-> slices,
                  calls |-> Append(intermediate, FinalCall(6, node_star, outlen))]

ReadPanics_never(self) == FALSE

\* assert!(!self.finished, ..)
ReadPanics(self) == self.finished

(* ------------------------------- actions ------------------------------ *)

Zeros(n) == [i \in 1..n |-> 0]

NoInfo == [ctor |-> "none", ccust |-> <<>>, args |-> <<>>, finReset |-> FALSE]

InitK12 ==
    /\ hasher = <<>>
    /\ reader = <<>>
    /\ output = <<>>
    /\ panicked = FALSE
    /\ locals = <<>>
    /\ ctor = "none"
    /\ ccust = <<>>
    /\ args = <<>>
    /\ nupd = 0
    /\ finReset = FALSE
    /\ rinfo = NoInfo
    /\ nreads = 0

Init ==
    /\ InitK12
    /\ encx = 0
    /\ encoded = <<>>

\* KangarooTwelve::new()
New ==
    /\ ctor = "none"
    /\ hasher' = <<KNew>>
    /\ ctor' = "new"
    /\ ccust' = <<>>
    /\ UNCHANGED <<reader, output, panicked, locals, args, nupd, finReset,
                   rinfo, nreads, encx, encoded>>

\* KangarooTwelve::new_with_customization(c)
NewWithCustomization ==
    /\ ctor = "none"
    /\ \E c \in CustIds :
          /\ hasher' = <<KNewWithCustomization(Customizations[c])>>
          /\ ccust' = Customizations[c]
    /\ ctor' = "new_with_customization"
    /\ UNCHANGED <<reader, output, panicked, locals, args, nupd, finReset,
                   rinfo, nreads, encx, encoded>>

\* Update::update(&mut self, bytes)
Update ==
    /\ hasher # <<>>
    /\ ~panicked
    /\ nupd < MaxUpdates
    /\ \E b \in BlockIds :
          /\ hasher' = <<KUpdate(hasher[1], Blocks[b])>>
          /\ args' = Append(args, b)
    /\ nupd' = nupd + 1
    /\ UNCHANGED <<reader, output, panicked, locals, ctor, ccust, finReset,
                   rinfo, nreads, encx, encoded>>

\* Reset::reset(&mut self)
Reset ==
    /\ hasher # <<>>
    /\ ~panicked
    /\ hasher' = <<KReset(hasher[1])>>
    /\ args' = <<>>
    /\ UNCHANGED <<reader, output, panicked, locals, ctor, ccust, nupd,
                   finReset, rinfo, nreads, encx, encoded>>

\* ExtendableOutput::finalize_xof(self): the hasher is moved into the Reader
FinalizeXof ==
    /\ hasher # <<>>
    /\ ~panicked
    /\ reader' = <<KFinalizeXof(hasher[1])>>
    /\ hasher' = <<>>
    /\ rinfo' = [ctor |-> ctor, ccust |-> ccust, args |-> args, finReset |-> finReset]
    /\ args' = <<>>
    /\ output' = <<>>
    /\ locals' = <<>>
    /\ nreads' = 0
    /\ UNCHANGED <<panicked, ctor, ccust, nupd, finReset, encx, encoded>>

\* ExtendableOutputReset::finalize_xof_reset(&mut self)
FinalizeXofReset ==
    /\ hasher # <<>>
    /\ ~panicked
    /\ reader' = <<KFinalizeXofReset(hasher[1]).reader>>
    /\ hasher' = <<KFinalizeXofReset(hasher[1]).self>>
    /\ rinfo' = [ctor |-> ctor, ccust |-> ccust, args |-> args, finReset |-> finReset]
    /\ args' = <<>>
    /\ finReset' = TRUE
    /\ output' = <<>>
    /\ locals' = <<>>
    /\ nreads' = 0
    /\ UNCHANGED <<panicked, ctor, ccust, nupd, encx, encoded>>

\* XofReader::read(&mut self, output) with output.len() = outlen; the
\* caller's slice holds zeros before the call.
Read(outlen) ==
    /\ reader # <<>>
    /\ ~panicked
    /\ nreads' = nreads + 1
    /\ IF ReadPanics(reader[1])
       THEN /\ panicked' = TRUE
            /\ output' = Zeros(outlen)
            /\ UNCHANGED <<reader, locals>>
       ELSE LET c == ReadCompute(reader[1].buffer, reader[1].customization, outlen)
            IN  /\ locals' = <<c>>
                /\ output' = c.calls[Len(c.calls)].out
                /\ reader' = <<[reader[1] EXCEPT !.finished = TRUE]>>
                /\ UNCHANGED panicked
    /\ UNCHANGED <<hasher, ctor, ccust, args, nupd, finReset, rinfo, encx, encoded>>

ReadAny == \E outlen \in OutLens : Read(outlen)

Next ==
    \/ New
    \/ NewWithCustomization
    \/ Update
    \/ Reset
    \/ FinalizeXof
    \/ FinalizeXofReset
    \/ ReadAny

Spec == Init /\ [][Next]_vars

(* ------------------- right_encode on its own inputs ------------------- *)

EncodeEdges == {65535, 65536, 65537, 16777215, 16777216, 2147483647}
EncodeInputs == (0..MaxEncodeInput) \cup EncodeEdges

InitEncode ==
    /\ InitK12
    /\ encx \in EncodeInputs
    /\ encoded = <<>>

Encode ==
    /\ encoded = <<>>
    /\ encoded' = <<right_encode(encx)>>
    /\ UNCHANGED <<encx, k12vars>>

NextEncode == Encode

SpecEncode == InitEncode /\ [][NextEncode]_vars

(* ------------------------ what the claims refer to -------------------- *)

\* The bytes passed to update, in call order.
RECURSIVE Flatten(_)
Flatten(ids) ==
    IF ids = <<>> THEN <<>> ELSE Blocks[Head(ids)] \o Flatten(Tail(ids))

\* The sequences of seqs joined in index order.
RECURSIVE ConcatAll(_)
ConcatAll(seqs) ==
    IF seqs = <<>> THEN <<>> ELSE Head(seqs) \o ConcatAll(Tail(seqs))

RECURSIVE BigEndianValue(_, _)
BigEndianValue(digits, k) ==
    IF k = 0 THEN 0 ELSE BigEndianValue(digits, k - 1) * 256 + digits[k]

\* e is the minimal big-endian base-256 digits of v followed by their count
IsRightEncodingOf(e, v) ==
    /\ Len(e) >= 1
    /\ \A i \in 1..Len(e) : e[i] \in 0..255
    /\ e[Len(e)] = Len(e) - 1
    /\ Len(e) > 1 => e[1] # 0
    /\ BigEndianValue(e, Len(e) - 1) = v

\* A hasher made by new_with_customization(c) that absorbs m in one
\* update, is finalized and read once with outlen bytes.
FreshOutput(c, m, outlen) ==
    LET rd == KFinalizeXof(KUpdate(KNewWithCustomization(c), m))
        rc == ReadCompute(rd.buffer, rd.customization, outlen)
    IN  rc.calls[Len(rc.calls)].out

FirstReadDone == reader # <<>> /\ nreads = 1 /\ locals # <<>>

(* -------------------------------- claims ------------------------------ *)

\* C1: a Reader produces output at most once.  Before any read it is not
\* finished; its first read, whatever the output length, does not panic,
\* sets finished and fills the whole output slice from the last sponge
\* call; any later read panics and leaves the caller's slice as it was.
C1_ReadOnce ==
    reader # <<>> =>
        /\ nreads = 0 => (~reader[1].finished /\ ~panicked /\ locals = <<>>)
        /\ nreads = 1 =>
              /\ reader[1].finished
              /\ ~panicked
              /\ locals # <<>>
              /\ output = locals[1].calls[Len(locals[1].calls)].out
        /\ nreads >= 2 =>
              /\ panicked
              /\ reader[1].finished
              /\ output = Zeros(Len(output))

C1_Witness == reader # <<>> /\ nreads = 2 /\ panicked /\ Len(output) = MaxOutLen

\* C2 (as claimed): after finalize_xof_reset the hasher's buffer is empty
\* and its customization is still the one it was created with, so what it
\* absorbs and finalizes next hashes like a fresh hasher with that
\* customization.
C2_FinalizeResetKeepsCustomization ==
    /\ (hasher # <<>> /\ finReset) =>
          /\ hasher[1].customization = ccust
          /\ hasher[1].buffer = Flatten(args)
    /\ (FirstReadDone /\ rinfo.finReset) =>
          output = FreshOutput(rinfo.ccust, Flatten(rinfo.args), Len(output))

\* C3: reset, after any updates on a hasher created with customization C
\* (ccust), leaves exactly the freshly created hasher: empty buffer,
\* customization C.  (nupd > 0 with args empty and no finalize_xof_reset
\* is the state right after such a reset.)
C3_ResetIsFresh ==
    (hasher # <<>> /\ ~finReset /\ args = <<>>) =>
        hasher[1] = KNewWithCustomization(ccust)

C3_Witness ==
    /\ hasher # <<>> /\ ~finReset /\ args = <<>>
    /\ nupd = MaxUpdates
    /\ ccust = LongCustomization
    /\ hasher[1] = [buffer |-> <<>>, customization |-> LongCustomization]

\* The single-chunk fast path: one sponge call, with domain byte 0x07,
\* over the whole of S; no 0x0B and no 0x06 call.
SingleChunkPath ==
    /\ Len(locals[1].calls) = 1
    /\ locals[1].calls[1].d = 7
    /\ locals[1].calls[1].input = locals[1].slice
    /\ locals[1].calls[1].out = output

\* C4 (as claimed): a message shorter than 8192 bytes, whatever the
\* customization, takes the single-chunk fast path.
C4_ShortMessageSingleChunk ==
    (FirstReadDone /\ Len(reader[1].buffer) < 8192) => SingleChunkPath

\* C4 (amended): when S = M || C || right_encode(len(C)) is at most 8192
\* bytes long, read takes the single-chunk fast path.
C4_ShortSliceSingleChunk ==
    (FirstReadDone /\ Len(locals[1].slice) <= 8192) => SingleChunkPath

C4_Witness ==
    /\ FirstReadDone
    /\ Len(reader[1].buffer) = 8191
    /\ Len(locals[1].slice) = 8192
    /\ SingleChunkPath

\* C5: right_encode(x) is the minimal-length big-endian base-256 digits of
\* x followed by the number of digits, with the listed vectors.
C5_RightEncode ==
    encoded # <<>> =>
        /\ IsRightEncodingOf(encoded[1], encx)
        /\ encx = 0 => encoded[1] = <<0>>
        /\ encx = 1 => encoded[1] = <<1, 1>>
        /\ encx = 255 => encoded[1] = <<255, 1>>
        /\ encx = 256 => encoded[1] = <<1, 0, 2>>
        /\ encx = 65536 => encoded[1] = <<1, 0, 0, 3>>

C5_Witness == encx = 65536 /\ encoded = << <<1, 0, 0, 3>> >>

\* C6: a hasher from new() and a hasher from new_with_customization with
\* the empty customization give the same output for the same message and
\* output length.
C6_DefaultIsEmptyCustomization ==
    (FirstReadDone /\ rinfo.ctor = "new") =>
        output = FreshOutput(<<>>, Flatten(rinfo.args), Len(output))

C6_Witness ==
    /\ FirstReadDone
    /\ rinfo.ctor = "new"
    /\ Len(rinfo.args) = 2
    /\ Len(output) = MaxOutLen

\* C7: prefix property.  A second, independent finalization of the same
\* (M, C) read with a larger output length hands the same domain byte and
\* the same bytes to the final sponge call, and its output starts with the
\* output of the shorter read.
C7_Prefix ==
    FirstReadDone =>
        \A n2 \in OutLens :
            n2 > Len(output) =>
                LET other == ReadCompute(Flatten(rinfo.args),
                                         reader[1].customization, n2)
                    last  == other.calls[Len(other.calls)]
                    mine  == locals[1].calls[Len(locals[1].calls)]
                IN  /\ last.d = mine.d
                    /\ last.input = mine.input
                    /\ Len(last.out) = n2
                    /\ SubSeq(last.out, 1, Len(output)) = output

C7_Witness ==
    /\ FirstReadDone
    /\ Len(output) = 1
    /\ Len(locals[1].slices) = 2
    /\ reader[1].customization # <<>>

\* C8: the buffer is the in-order concatenation of what was absorbed since
\* creation or the last reset, update leaves the customization alone, the
\* Reader gets that buffer, and S is M || C || right_encode(len(C)): the
\* customization and its length-encoding appear once, as the suffix.
C8_CustomizationAppendedAtRead ==
    /\ hasher # <<>> => hasher[1].buffer = Flatten(args)
    /\ (hasher # <<>> /\ ~finReset) => hasher[1].customization = ccust
    /\ reader # <<>> => reader[1].buffer = Flatten(rinfo.args)
    /\ FirstReadDone =>
          LET S == locals[1].slice
              M == reader[1].buffer
              C == reader[1].customization
          IN  /\ Len(S) > Len(M) + Len(C)
              /\ SubSeq(S, 1, Len(M)) = M
              /\ SubSeq(S, Len(M) + 1, Len(M) + Len(C)) = C
              /\ IsRightEncodingOf(SubSeq(S, Len(M) + Len(C) + 1, Len(S)), Len(C))

C8_Witness ==
    /\ FirstReadDone
    /\ rinfo.args = <<2, 1>>
    /\ reader[1].customization = LongCustomization
    /\ Len(locals[1].slice) = 8191 + 1 + 256 + 3

\* C9: the chunks are a partition of S into n = ceil(len(S)/8192) >= 1
\* pieces: chunk i is S[8192*i .. min(8192*(i+1), len(S))], all but the
\* last have 8192 bytes, the last has 1 to 8192.
C9_ChunksPartition ==
    FirstReadDone =>
        LET S      == locals[1].slice
            slices == locals[1].slices
            n      == Len(slices)
        IN  /\ n >= 1
            /\ n * 8192 >= Len(S)
            /\ (n - 1) * 8192 < Len(S)
            /\ \A i \in 1..n :
                  /\ slices[i] = SubSeq(S, 8192 * (i - 1) + 1,
                                        Min(8192 * i, Len(S)))
                  /\ i < n => Len(slices[i]) = 8192
            /\ Len(slices[n]) \in 1..8192
            /\ S = ConcatAll(slices)

C9_Witness ==
    /\ FirstReadDone
    /\ Len(locals[1].slices) = 3
    /\ Len(locals[1].slices[3]) < 8192

\* C10: with n >= 2 chunks the calls are, in chunk order, one 0x0B call
\* per trailing chunk giving a 32-byte chaining value, then one 0x06 call
\* over chunk0 || 03 00 00 00 00 00 00 00 || CV_1 .. CV_(n-1) ||
\* right_encode(n-1) || FF FF, whose output is the output of read; for two
\* chunks the encoded count is 01 01.
C10_FinalNode ==
    (FirstReadDone /\ Len(locals[1].slices) >= 2) =>
        LET slices == locals[1].slices
            calls  == locals[1].calls
            n      == Len(slices)
            node   == calls[n].input
            cvs    == Len(slices[1]) + 8
            enc    == cvs + 32 * (n - 1)
        IN  /\ Len(calls) = n
            /\ \A i \in 1..(n - 1) :
                  /\ calls[i].d = 11
                  /\ calls[i].input = slices[i + 1]
                  /\ Len(calls[i].out) = 32
                  /\ SubSeq(node, cvs + 32 * (i - 1) + 1, cvs + 32 * i)
                        = calls[i].out
            /\ calls[n].d = 6
            /\ calls[n].out = output
            /\ Len(node) >= enc + 3
            /\ SubSeq(node, 1, Len(slices[1])) = slices[1]
            /\ SubSeq(node, Len(slices[1]) + 1, cvs) = <<3, 0, 0, 0, 0, 0, 0, 0>>
            /\ IsRightEncodingOf(SubSeq(node, enc + 1, Len(node) - 2), n - 1)
            /\ SubSeq(node, Len(node) - 1, Len(node)) = <<255, 255>>
            /\ n = 2 => SubSeq(node, enc + 1, Len(node)) = <<1, 1, 255, 255>>

C10_Witness ==
    /\ FirstReadDone
    /\ Len(locals[1].slices) = 3
    /\ Len(locals[1].calls) = 3
    /\ locals[1].calls[1].out # locals[1].calls[2].out

====
